---- MODULE Spec2Model ----
(***************************************************************************)
(* Decimal rules of go-xvalidator: decimal, decimal_if and the six         *)
(* comparison rules dgt, dgte, dlt, dlte, deq, dneq, with the parameter    *)
(* parsers they share, and the lazily compiled E164 regex that concurrent  *)
(* callers share.                                                          *)
(*                                                                         *)
(* A Go string is a sequence of one-character strings, so that splitting,  *)
(* trimming and parsing are computed character by character as the code    *)
(* and the libraries it calls compute them.  int32 values keep their       *)
(* width: every arithmetic step stays inside the 32-bit range.             *)
(***************************************************************************)
EXTENDS Integers, Sequences, FiniteSets, TLC

VARIABLES fn, data, param, parent, precision, scale, ret, ifParam, lib, out,
          pc, calls, returned, regex, onceDone, onceM, compiled

callVars == <<fn, data, param, parent, precision, scale, ret, ifParam, lib, out>>
onceVars == <<pc, calls, returned, regex, onceDone, onceM, compiled>>
vars == <<callVars, onceVars>>

(***************************************************************************)
(* Bounds of the model and program constants.                              *)
(***************************************************************************)
MaxDataLen == 3
MaxParamLen == 3
MaxIfParamLen == 5
MaxLimit == 4
MaxGoroutines == 3
MaxCalls == 2
MaxZeros == 2
MaxErrors == 3
MaxHeadLen == 3
MaxPrefixLen == 2

DefaultPrecision == 38
DefaultScale == 18

MaxInt32 == 2147483647
MinInt32 == (-2147483647) - 1

(***************************************************************************)
(* Go strings.                                                             *)
(***************************************************************************)
Digits == {"0", "1", "2", "3", "4", "5", "6", "7", "8", "9"}

DigitVal(c) ==
    CASE c = "0" -> 0 [] c = "1" -> 1 [] c = "2" -> 2 [] c = "3" -> 3
      [] c = "4" -> 4 [] c = "5" -> 5 [] c = "6" -> 6 [] c = "7" -> 7
      [] c = "8" -> 8 [] c = "9" -> 9

StringsUpTo(A, n) == UNION {[1..k -> A] : k \in 0..n}

Tail0(s, i) == SubSeq(s, i, Len(s))

\* strings.Index for a one-character separator, 1-based; 0 when absent.
IndexOf(s, C) ==
    IF \E i \in 1..Len(s) : s[i] \in C
    THEN CHOOSE i \in 1..Len(s) : s[i] \in C /\ \A j \in 1..(i - 1) : s[j] \notin C
    ELSE 0

\* strings.Contains(s, c) for a one-character c.
Contains(s, c) == \E i \in 1..Len(s) : s[i] = c

\* strings.Split(s, c) for a one-character separator: always at least one
\* part, one more part than there are separators.
RECURSIVE Split(_, _)
Split(s, c) ==
    LET i == IndexOf(s, {c})
    IN IF i = 0 THEN <<s>>
       ELSE <<SubSeq(s, 1, i - 1)>> \o Split(Tail0(s, i + 1), c)

\* strings.TrimPrefix(s, c) for a one-character prefix.
TrimPrefix(s, c) == IF Len(s) > 0 /\ s[1] = c THEN Tail(s) ELSE s

\* strings.TrimLeft(s, c) for a one-character cutset.
RECURSIVE TrimLeft(_, _)
TrimLeft(s, c) == IF Len(s) > 0 /\ s[1] = c THEN TrimLeft(Tail(s), c) ELSE s

Repeat(c, n) == [i \in 1..n |-> c]

(***************************************************************************)
(* strconv.ParseInt(s, 10, 32): an optional sign and one or more digits,   *)
(* in the int32 range.  The magnitude is accumulated as a negative number  *)
(* so that -2^31 is representable; acc = 1 marks a range error.            *)
(***************************************************************************)
RECURSIVE NegMagnitude(_, _)
NegMagnitude(s, acc) ==
    IF Len(s) = 0 THEN acc
    ELSE LET d == DigitVal(s[1])
         IN IF acc < -214748364 \/ (acc = -214748364 /\ d > 8)
            THEN 1
            ELSE NegMagnitude(Tail(s), acc * 10 - d)

ParseInt32(s) ==
    LET neg  == Len(s) > 0 /\ s[1] = "-"
        body == IF Len(s) > 0 /\ s[1] \in {"+", "-"} THEN Tail(s) ELSE s
        m    == NegMagnitude(body, 0)
    IN IF Len(body) = 0 \/ \E i \in 1..Len(body) : body[i] \notin Digits
       THEN [ok |-> FALSE, n |-> 0]
       ELSE IF m = 1 \/ (~neg /\ m = MinInt32)
       THEN [ok |-> FALSE, n |-> 0]
       ELSE [ok |-> TRUE, n |-> IF neg THEN m ELSE -m]

\* a - b in int32 arithmetic (two's complement wrap-around).
Sub32(a, b) ==
    IF b >= 0
    THEN IF a < MinInt32 + b
         THEN (((a - MinInt32) - b) + 1) + MaxInt32
         ELSE a - b
    ELSE IF a > MaxInt32 + b
         THEN ((a - MaxInt32) - (b + 1)) + MinInt32
         ELSE a - b

(***************************************************************************)
(* shopspring/decimal as the rules use it.  A Decimal is a coefficient     *)
(* (sign and digits without leading zeros, <<"0">> for zero) and an        *)
(* exponent: value = coefficient * 10^exp.                                 *)
(***************************************************************************)
StripZeros(ds) ==
    LET t == TrimLeft(ds, "0") IN IF Len(t) = 0 THEN <<"0">> ELSE t

\* strconv.ParseInt(s, 10, 64) / big.Int.SetString(s, 10): an optional sign
\* and one or more digits; no other character.
ParseBigInt(s) ==
    LET body == IF Len(s) > 0 /\ s[1] \in {"+", "-"} THEN Tail(s) ELSE s
        mag  == StripZeros(body)
    IN IF Len(body) = 0 \/ \E i \in 1..Len(body) : body[i] \notin Digits
       THEN [ok |-> FALSE, neg |-> FALSE, digits |-> <<"0">>]
       ELSE [ok |-> TRUE,
             neg |-> (s[1] = "-" /\ mag # <<"0">>),
             digits |-> mag]

DecimalError == [ok |-> FALSE, neg |-> FALSE, digits |-> <<"0">>, exp |-> 0]

\* decimal.NewFromString(value)
NewFromString(value) ==
    LET eIndex   == IndexOf(value, {"E", "e"})
        expParse == IF eIndex # 0
                    THEN ParseInt32(Tail0(value, eIndex + 1))
                    ELSE [ok |-> TRUE, n |-> 0]
        mant     == IF eIndex # 0 THEN SubSeq(value, 1, eIndex - 1) ELSE value
        dots     == {i \in 1..Len(mant) : mant[i] = "."}
        pIndex   == IndexOf(mant, {"."})
        fracLen  == IF pIndex = 0 THEN 0 ELSE Len(mant) - pIndex
        intString == IF pIndex = 0 THEN mant
                     ELSE SubSeq(mant, 1, pIndex - 1) \o Tail0(mant, pIndex + 1)
        big      == ParseBigInt(intString)
    IN IF ~expParse.ok THEN DecimalError
       ELSE IF Cardinality(dots) > 1 THEN DecimalError
       ELSE IF ~big.ok THEN DecimalError
       ELSE IF expParse.n < MinInt32 + fracLen THEN DecimalError
       ELSE [ok |-> TRUE, neg |-> big.neg, digits |-> big.digits,
             exp |-> expParse.n - fracLen]

IsZero(d) == d.digits = <<"0">>

RECURSIVE TrimTrailingZeros(_)
TrimTrailingZeros(s) ==
    IF Len(s) > 0 /\ s[Len(s)] = "0"
    THEN TrimTrailingZeros(SubSeq(s, 1, Len(s) - 1))
    ELSE s

\* Decimal.String(): the canonical rendering, trailing fractional zeros
\* trimmed, no exponent.
DecimalString(d) ==
    LET str    == d.digits
        n      == Len(str)
        k      == 0 - d.exp
        intPart == IF n > k THEN SubSeq(str, 1, n - k) ELSE <<"0">>
        fracRaw == IF n > k THEN Tail0(str, n - k + 1)
                   ELSE Repeat("0", k - n) \o str
        frac   == TrimTrailingZeros(fracRaw)
        number == IF d.exp >= 0
                  THEN (IF IsZero(d) THEN <<"0">> ELSE str \o Repeat("0", d.exp))
                  ELSE (IF Len(frac) > 0 THEN intPart \o <<".">> \o frac ELSE intPart)
    IN IF d.neg THEN <<"-">> \o number ELSE number

\* big.Int.Cmp on magnitudes without leading zeros: -1, 0 or 1.
RECURSIVE CmpDigits(_, _)
CmpDigits(a, b) ==
    IF Len(a) # Len(b) THEN (IF Len(a) < Len(b) THEN -1 ELSE 1)
    ELSE IF Len(a) = 0 THEN 0
    ELSE IF a[1] # b[1] THEN (IF DigitVal(a[1]) < DigitVal(b[1]) THEN -1 ELSE 1)
    ELSE CmpDigits(Tail(a), Tail(b))

\* Decimal.Cmp: both coefficients rescaled to the smaller exponent, then
\* compared as integers.
DecimalCmp(a, b) ==
    LET e  == IF a.exp < b.exp THEN a.exp ELSE b.exp
        ra == StripZeros(a.digits \o Repeat("0", a.exp - e))
        rb == StripZeros(b.digits \o Repeat("0", b.exp - e))
    IN IF a.neg /\ ~b.neg THEN -1
       ELSE IF ~a.neg /\ b.neg THEN 1
       ELSE IF a.neg THEN 0 - CmpDigits(ra, rb)
       ELSE CmpDigits(ra, rb)

(***************************************************************************)
(* Decimal comparison functions.                                           *)
(***************************************************************************)
decimalGreaterThan(a, b) == DecimalCmp(a, b) = 1
decimalGreaterThanOrEqual(a, b) == DecimalCmp(a, b) >= 0
decimalLessThan(a, b) == DecimalCmp(a, b) = -1

\* Variant: less-than-or-equal bound to the strict order.
decimalLessThanOrEqual_strict(a, b) == DecimalCmp(a, b) = -1

decimalLessThanOrEqual(a, b) == DecimalCmp(a, b) <= 0
\* Variant: equality of the written representation, not of the value.
decimalEqual_textual(a, b) ==
    a.neg = b.neg /\ a.digits = b.digits /\ a.exp = b.exp

decimalEqual(a, b) == DecimalCmp(a, b) = 0
decimalNotEqual(a, b) == ~(DecimalCmp(a, b) = 0)

Rules == {"dgt", "dgte", "dlt", "dlte", "deq", "dneq"}

\* RegisterDecimalValidators: the comparator each rule name is bound to.
comparator(rule, a, b) ==
    CASE rule = "dgt"  -> decimalGreaterThan(a, b)
      [] rule = "dgte" -> decimalGreaterThanOrEqual(a, b)
      [] rule = "dlt"  -> decimalLessThan(a, b)
      [] rule = "dlte" -> decimalLessThanOrEqual(a, b)
      [] rule = "deq"  -> decimalEqual(a, b)
      [] rule = "dneq" -> decimalNotEqual(a, b)

(***************************************************************************)
(* Field values as reflection shows them: a string field carries its text, *)
(* a field of another kind does not assert to string.                      *)
(***************************************************************************)
StringField(s) == [kind |-> "string", s |-> s]
IntField == [kind |-> "int", s |-> <<>>]

\* reflect.Value.String(): the text of a string, "<int Value>" otherwise.
ValueString(f) ==
    IF f.kind = "string" THEN f.s
    ELSE <<"<", "i", "n", "t", " ", "V", "a", "l", "u", "e", ">">>

\* Variant: the parameter's parse error is dropped and the zero Decimal
\* is compared instead.
validateDecimalOperation_ignoresParamError(rule, field, p) ==
    LET value     == NewFromString(field.s)
        baseValue == NewFromString(p)
    IN IF field.kind # "string" THEN FALSE
       ELSE IF ~value.ok THEN FALSE
       ELSE comparator(rule, value, baseValue)

\* validateDecimalOperation(comparator)(fl)
validateDecimalOperation(rule, field, p) ==
    LET value     == NewFromString(field.s)
        baseValue == NewFromString(p)
    IN IF field.kind # "string" THEN FALSE
       ELSE IF ~value.ok THEN FALSE
       ELSE IF ~baseValue.ok THEN FALSE
       ELSE comparator(rule, value, baseValue)

\* Variant: a single number is taken as the precision.
parseDecimalParams_scaleAsPrecision(p) ==
    LET parts == Split(p, ":")
        whole == ParseInt32(p)
    IN IF Len(p) = 0 THEN <<DefaultPrecision, DefaultScale>>
       ELSE IF Contains(p, ":")
       THEN IF Len(parts) = 2
            THEN LET l == ParseInt32(parts[1])
                     r == ParseInt32(parts[2])
                 IN <<IF l.ok THEN l.n ELSE DefaultPrecision,
                      IF r.ok THEN r.n ELSE DefaultScale>>
            ELSE <<DefaultPrecision, DefaultScale>>
       ELSE <<IF whole.ok THEN whole.n ELSE DefaultPrecision, DefaultScale>>

\* Variant: one unparsable half discards the other half too.
parseDecimalParams_allOrNothing(p) ==
    LET parts == Split(p, ":")
        whole == ParseInt32(p)
    IN IF Len(p) = 0 THEN <<DefaultPrecision, DefaultScale>>
       ELSE IF Contains(p, ":")
       THEN IF Len(parts) = 2
            THEN LET l == ParseInt32(parts[1])
                     r == ParseInt32(parts[2])
                 IN IF l.ok /\ r.ok THEN <<l.n, r.n>>
                    ELSE <<DefaultPrecision, DefaultScale>>
            ELSE <<DefaultPrecision, DefaultScale>>
       ELSE <<DefaultPrecision, IF whole.ok THEN whole.n ELSE DefaultScale>>

\* Variant: the parts after the second are ignored.
parseDecimalParams_firstTwoParts(p) ==
    LET parts == Split(p, ":")
        whole == ParseInt32(p)
    IN IF Len(p) = 0 THEN <<DefaultPrecision, DefaultScale>>
       ELSE IF Contains(p, ":")
       THEN LET l == ParseInt32(parts[1])
                r == ParseInt32(parts[2])
            IN <<IF l.ok THEN l.n ELSE DefaultPrecision,
                 IF r.ok THEN r.n ELSE DefaultScale>>
       ELSE <<DefaultPrecision, IF whole.ok THEN whole.n ELSE DefaultScale>>

\* Variant: the empty parameter means an integer (scale 0).
parseDecimalParams_emptyIsInteger(p) ==
    LET parts == Split(p, ":")
        whole == ParseInt32(p)
    IN IF Len(p) = 0 THEN <<DefaultPrecision, 0>>
       ELSE IF Contains(p, ":")
       THEN IF Len(parts) = 2
            THEN LET l == ParseInt32(parts[1])
                     r == ParseInt32(parts[2])
                 IN <<IF l.ok THEN l.n ELSE DefaultPrecision,
                      IF r.ok THEN r.n ELSE DefaultScale>>
            ELSE <<DefaultPrecision, DefaultScale>>
       ELSE <<DefaultPrecision, IF whole.ok THEN whole.n ELSE DefaultScale>>

\* Variant: the error of an integer out of the int32 range is dropped and
\* the limit value the parser returns with it is kept.
parseDecimalParams_clampsOutOfRange(p) ==
    LET parts == Split(p, ":")
        half(h, default) ==
            LET r    == ParseInt32(h)
                body == IF Len(h) > 0 /\ h[1] \in {"+", "-"} THEN Tail(h) ELSE h
            IN IF r.ok THEN r.n
               ELSE IF Len(body) > 0 /\ \A i \in 1..Len(body) : body[i] \in Digits
               THEN (IF h[1] = "-" THEN MinInt32 ELSE MaxInt32)
               ELSE default
    IN IF Len(p) = 0 THEN <<DefaultPrecision, DefaultScale>>
       ELSE IF Contains(p, ":")
       THEN IF Len(parts) = 2
            THEN <<half(parts[1], DefaultPrecision), half(parts[2], DefaultScale)>>
            ELSE <<DefaultPrecision, DefaultScale>>
       ELSE <<DefaultPrecision, half(p, DefaultScale)>>

\* parseDecimalParams(param): <<precision, scale>>
parseDecimalParams(p) ==
    LET parts == Split(p, ":")
        whole == ParseInt32(p)
    IN IF Len(p) = 0 THEN <<DefaultPrecision, DefaultScale>>
       ELSE IF Contains(p, ":")
       THEN IF Len(parts) = 2
            THEN LET l == ParseInt32(parts[1])
                     r == ParseInt32(parts[2])
                 IN <<IF l.ok THEN l.n ELSE DefaultPrecision,
                      IF r.ok THEN r.n ELSE DefaultScale>>
            ELSE <<DefaultPrecision, DefaultScale>>
       ELSE <<DefaultPrecision, IF whole.ok THEN whole.n ELSE DefaultScale>>

\* Variant: the integer digits must be strictly fewer than the room left.
validateDecimalPrecisionScale_strict(value, prec, sc) ==
    LET valueStr    == TrimPrefix(DecimalString(value), "-")
        parts       == Split(valueStr, ".")
        decimalPart == IF Len(parts) > 1 THEN parts[2] ELSE <<>>
        integerPart == StripZeros(parts[1])
    IN IF Len(decimalPart) > sc THEN FALSE
       ELSE Len(integerPart) < Sub32(prec, sc)

\* Variant: the '-' of a negative value is counted with the integer digits.
validateDecimalPrecisionScale_signCounted(value, prec, sc) ==
    LET valueStr    == DecimalString(value)
        parts       == Split(valueStr, ".")
        decimalPart == IF Len(parts) > 1 THEN parts[2] ELSE <<>>
        integerPart == IF parts[1] # <<"0">>
                       THEN (IF Len(TrimLeft(parts[1], "0")) = 0
                             THEN <<"0">> ELSE TrimLeft(parts[1], "0"))
                       ELSE parts[1]
    IN IF Len(decimalPart) > sc THEN FALSE
       ELSE Len(integerPart) <= Sub32(prec, sc)

\* validateDecimalPrecisionScale(value, precision, scale)
validateDecimalPrecisionScale(value, prec, sc) ==
    LET valueStr    == TrimPrefix(DecimalString(value), "-")
        parts       == Split(valueStr, ".")
        decimalPart == IF Len(parts) > 1 THEN parts[2] ELSE <<>>
        integerPart == IF parts[1] # <<"0">>
                       THEN (IF Len(TrimLeft(parts[1], "0")) = 0
                             THEN <<"0">> ELSE TrimLeft(parts[1], "0"))
                       ELSE parts[1]
        integerDigits == Len(integerPart)
        decimalPlaces == Len(decimalPart)
        maxIntegerDigits == Sub32(prec, sc)
    IN IF decimalPlaces > sc THEN FALSE
       ELSE integerDigits <= maxIntegerDigits

\* Variant: the integer digits are counted on the text as written, leading
\* zeros included.
validateDecimal_writtenDigits(field, p) ==
    LET value   == NewFromString(field.s)
        ps      == parseDecimalParams(p)
        written == Split(TrimPrefix(field.s, "-"), ".")[1]
    IN IF field.kind # "string" THEN FALSE
       ELSE IF ~value.ok THEN FALSE
       ELSE /\ validateDecimalPrecisionScale(value, ps[1], ps[2])
            /\ Len(written) <= Sub32(ps[1], ps[2])

\* validateDecimal(fl)
validateDecimal(field, p) ==
    LET value == NewFromString(field.s)
        ps    == parseDecimalParams(p)
    IN IF field.kind # "string" THEN FALSE
       ELSE IF ~value.ok THEN FALSE
       ELSE validateDecimalPrecisionScale(value, ps[1], ps[2])

\* Variant: a condition with more than one '=' is cut at the first two.
parseDecimalIfParam_lenientCondition(p) ==
    LET parts == Split(p, "@")
        conditionParts == Split(parts[2], "=")
        failed == [err |-> TRUE, rule |-> <<>>, field |-> <<>>, expect |-> <<>>]
    IN IF Len(parts) # 2 THEN failed
       ELSE IF Len(conditionParts) < 2 THEN failed
       ELSE [err |-> FALSE, rule |-> parts[1],
             field |-> conditionParts[1], expect |-> conditionParts[2]]

\* parseDecimalIfParam(param)
parseDecimalIfParam(p) ==
    LET parts == Split(p, "@")
        conditionParts == Split(parts[2], "=")
        failed == [err |-> TRUE, rule |-> <<>>, field |-> <<>>, expect |-> <<>>]
    IN IF Len(parts) # 2 THEN failed
       ELSE IF Len(conditionParts) # 2 THEN failed
       ELSE [err |-> FALSE, rule |-> parts[1],
             field |-> conditionParts[1], expect |-> conditionParts[2]]

(***************************************************************************)
(* The parent of the validated field: the struct that holds it, with its   *)
(* named fields, or, for a single variable, the value itself (no struct).  *)
(***************************************************************************)
Struct(fields) == [kind |-> "struct", fields |-> fields]
SingleVariable(f) == [kind |-> f.kind, fields |-> <<>>]

\* reflect.Value.FieldByName(name): panics on a value that is no struct,
\* the invalid Value when the struct has no field of that name.
FieldByName(par, name) ==
    IF par.kind # "struct" THEN [panic |-> TRUE, valid |-> FALSE, value |-> IntField]
    ELSE IF name \in DOMAIN par.fields
    THEN [panic |-> FALSE, valid |-> TRUE, value |-> par.fields[name]]
    ELSE [panic |-> FALSE, valid |-> FALSE, value |-> IntField]

\* Variant: the inner rule is ignored and the default limits apply.
validateDecimalIf_defaultLimits(field, p, par) ==
    LET parsed     == parseDecimalIfParam(p)
        otherField == FieldByName(par, parsed.field)
        other      == ValueString(otherField.value)
        value      == NewFromString(field.s)
        ps         == parseDecimalParams(<<>>)
    IN IF parsed.err THEN "fail"
       ELSE IF otherField.panic THEN "panic"
       ELSE IF ~otherField.valid THEN "fail"
       ELSE IF other # parsed.expect THEN "pass"
       ELSE IF field.kind # "string" THEN "fail"
       ELSE IF ~value.ok THEN "fail"
       ELSE IF validateDecimalPrecisionScale(value, ps[1], ps[2]) THEN "pass"
       ELSE "fail"

\* Variant: the rule is applied whatever the sibling holds.
validateDecimalIf_alwaysApplies(field, p, par) ==
    LET parsed     == parseDecimalIfParam(p)
        otherField == FieldByName(par, parsed.field)
        other      == ValueString(otherField.value)
        value      == NewFromString(field.s)
        ps         == parseDecimalParams(parsed.rule)
    IN IF parsed.err THEN "fail"
       ELSE IF otherField.panic THEN "panic"
       ELSE IF ~otherField.valid THEN "fail"
       ELSE IF field.kind # "string" THEN "fail"
       ELSE IF ~value.ok THEN "fail"
       ELSE IF validateDecimalPrecisionScale(value, ps[1], ps[2]) THEN "pass"
       ELSE "fail"

\* Variant: a target that does not parse is let through.
validateDecimalIf_unparsedPasses(field, p, par) ==
    LET parsed     == parseDecimalIfParam(p)
        otherField == FieldByName(par, parsed.field)
        other      == ValueString(otherField.value)
        value      == NewFromString(field.s)
        ps         == parseDecimalParams(parsed.rule)
    IN IF parsed.err THEN "fail"
       ELSE IF otherField.panic THEN "panic"
       ELSE IF ~otherField.valid THEN "fail"
       ELSE IF other # parsed.expect THEN "pass"
       ELSE IF field.kind # "string" THEN "fail"
       ELSE IF ~value.ok THEN "pass"
       ELSE IF validateDecimalPrecisionScale(value, ps[1], ps[2]) THEN "pass"
       ELSE "fail"

\* Variant: a malformed parameter skips the rule.
validateDecimalIf_malformedSkips(field, p, par) ==
    LET parsed     == parseDecimalIfParam(p)
        otherField == FieldByName(par, parsed.field)
        other      == ValueString(otherField.value)
        value      == NewFromString(field.s)
        ps         == parseDecimalParams(parsed.rule)
    IN IF parsed.err THEN "pass"
       ELSE IF otherField.panic THEN "panic"
       ELSE IF ~otherField.valid THEN "fail"
       ELSE IF other # parsed.expect THEN "pass"
       ELSE IF field.kind # "string" THEN "fail"
       ELSE IF ~value.ok THEN "fail"
       ELSE IF validateDecimalPrecisionScale(value, ps[1], ps[2]) THEN "pass"
       ELSE "fail"

\* Variant: an empty field name counts as a condition that is not met.
validateDecimalIf_emptyNameSkips(field, p, par) ==
    LET parsed     == parseDecimalIfParam(p)
        otherField == FieldByName(par, parsed.field)
        other      == ValueString(otherField.value)
        value      == NewFromString(field.s)
        ps         == parseDecimalParams(parsed.rule)
    IN IF parsed.err THEN "fail"
       ELSE IF parsed.field = <<>> THEN "pass"
       ELSE IF otherField.panic THEN "panic"
       ELSE IF ~otherField.valid THEN "fail"
       ELSE IF other # parsed.expect THEN "pass"
       ELSE IF field.kind # "string" THEN "fail"
       ELSE IF ~value.ok THEN "fail"
       ELSE IF validateDecimalPrecisionScale(value, ps[1], ps[2]) THEN "pass"
       ELSE "fail"

\* validateDecimalIf(fl): "pass", "fail", or "panic" when the call aborts.
validateDecimalIf(field, p, par) ==
    LET parsed     == parseDecimalIfParam(p)
        otherField == FieldByName(par, parsed.field)
        other      == ValueString(otherField.value)
        value      == NewFromString(field.s)
        ps         == parseDecimalParams(parsed.rule)
    IN IF parsed.err THEN "fail"
       ELSE IF otherField.panic THEN "panic"
       ELSE IF ~otherField.valid THEN "fail"
       ELSE IF other # parsed.expect THEN "pass"
       ELSE IF field.kind # "string" THEN "fail"
       ELSE IF ~value.ok THEN "fail"
       ELSE IF validateDecimalPrecisionScale(value, ps[1], ps[2]) THEN "pass"
       ELSE "fail"

(***************************************************************************)
(* The type adapter.  A field of type decimal.Decimal is a field of kind   *)
(* "decimal" whose s is the literal its value was made from.  The          *)
(* validation library replaces a field of a registered type by what the    *)
(* registered function returns, before any rule sees it.                   *)
(***************************************************************************)
DecimalField(s) == [kind |-> "decimal", s |-> s]
NilValue == [kind |-> "nil", s |-> <<>>]

\* Variant: only a pointer to a decimal is recognised, so every value
\* yields nil.
decimalTypeFunc_pointerOnly(field) ==
    NilValue

\* decimalTypeFunc(field)
decimalTypeFunc(field) ==
    IF field.kind = "decimal"
    THEN StringField(DecimalString(NewFromString(field.s)))
    ELSE NilValue

\* The field a rule is given: RegisterCustomTypeFunc(decimalTypeFunc,
\* decimal.Decimal{}) makes the library call the function on fields of that
\* type only; a nil result is an invalid value.
Extract(field) ==
    IF field.kind = "decimal"
    THEN (IF decimalTypeFunc(field).kind = "nil"
          THEN [kind |-> "invalid", s |-> <<>>]
          ELSE decimalTypeFunc(field))
    ELSE field

(***************************************************************************)
(* The translated entry points.  The validation library returns nil, a     *)
(* ValidationErrors (one FieldError per failed field, in the order they    *)
(* were reported) or, for a nil or non-struct input, an                    *)
(* InvalidValidationError.  FieldError.Translate gives the translation     *)
(* registered for the tag, written on the field name, or the untranslated  *)
(* Error() text when the tag has none.                                     *)
(***************************************************************************)
NilError == [kind |-> "nil"]
InvalidValidationError == [kind |-> "InvalidValidationError"]
ValidationErrors(errs) == [kind |-> "ValidationErrors", errs |-> errs]
FieldError(field, tag) == [field |-> field, tag |-> tag]

Translations ==
    (<<"r">> :> <<" ", "r", "e", "q">>) @@ (<<"d">> :> <<" ", "d", "e", "c">>)

Translate(fe) ==
    IF fe.tag \in DOMAIN Translations
    THEN fe.field \o Translations[fe.tag]
    ELSE <<"K", ":">> \o fe.field \o <<" ", "T", ":">> \o fe.tag

\* strings.Join(elems, sep)
RECURSIVE Join(_, _)
Join(elems, sep) ==
    IF Len(elems) = 0 THEN <<>>
    ELSE IF Len(elems) = 1 THEN elems[1]
    ELSE elems[1] \o sep \o Join(Tail(elems), sep)

\* Variant: the messages are joined last error first.
formatTranslatedErrors_reversed(validationErrors) ==
    LET n == Len(validationErrors.errs)
        messages == [i \in 1..n |-> Translate(validationErrors.errs[n + 1 - i])]
    IN [kind |-> "errorString", text |-> Join(messages, <<";", " ">>)]

\* formatTranslatedErrors(validationErrors, translator)
formatTranslatedErrors(validationErrors) ==
    LET messages == [i \in 1..Len(validationErrors.errs) |->
                        Translate(validationErrors.errs[i])]
    IN [kind |-> "errorString", text |-> Join(messages, <<";", " ">>)]

\* (*Validator).StructTranslated(s), on what v.validate.Struct(s) returned
StructTranslated(err) ==
    IF err.kind # "nil" /\ err.kind = "ValidationErrors"
    THEN formatTranslatedErrors(err)
    ELSE err

\* (*Validator).VarTranslated(field, tag), on what v.validate.Var returned
VarTranslated(err) ==
    IF err.kind # "nil" /\ err.kind = "ValidationErrors"
    THEN formatTranslatedErrors(err)
    ELSE err

(***************************************************************************)
(* mobile_e164.  The E.164 pattern ^\+[1-9]?[0-9]{7,14}$ is matched on the  *)
(* whole text.  What libphonenumber answers about a number (whether it     *)
(* parses, is valid, its type and its region) is an input of the model.    *)
(***************************************************************************)
\* E164Regex().MatchString(s)
E164Match(s) ==
    LET rest == Tail(s)
        digitsOnly(t) == \A i \in 1..Len(t) : t[i] \in Digits
    IN /\ Len(s) > 0
       /\ s[1] = "+"
       /\ \/ digitsOnly(rest) /\ Len(rest) >= 7 /\ Len(rest) <= 14
          \/ /\ Len(rest) > 0
             /\ rest[1] \in Digits \ {"0"}
             /\ digitsOnly(Tail(rest))
             /\ Len(Tail(rest)) >= 7
             /\ Len(Tail(rest)) <= 14

PhoneAnswer(parseErr, valid, type, region) ==
    [kind |-> "phonenumbers", parseErr |-> parseErr, valid |-> valid,
     type |-> type, region |-> region]

\* Variant: the pattern is not checked before the library is asked.
validateMobileE164_noFormatGate(field, p, answer) ==
    IF answer.parseErr THEN FALSE
    ELSE IF ~answer.valid THEN FALSE
    ELSE IF answer.type # "MOBILE" /\ answer.type # "FIXED_LINE_OR_MOBILE" THEN FALSE
    ELSE IF p # <<>> /\ answer.region # p THEN FALSE
    ELSE TRUE

\* validateMobileE164(fl), with the library's answer for fl.Field()
validateMobileE164(field, p, answer) ==
    LET phoneNumber == ValueString(field)
    IN IF ~E164Match(phoneNumber) THEN FALSE
       ELSE IF answer.parseErr THEN FALSE
       ELSE IF ~answer.valid THEN FALSE
       ELSE IF answer.type # "MOBILE" /\ answer.type # "FIXED_LINE_OR_MOBILE" THEN FALSE
       ELSE IF p # <<>> /\ answer.region # p THEN FALSE
       ELSE TRUE

(***************************************************************************)
(* Password strength.  A password is a sequence of characters; len() is    *)
(* its length in bytes of UTF-8, and the loop ranges over its characters.  *)
(***************************************************************************)
UpperCase ==
    { "A", "B", "C", "D", "E", "F", "G", "H", "I", "J", "K", "L", "M",
      "N", "O", "P", "Q", "R", "S", "T", "U", "V", "W", "X", "Y", "Z" }
LowerCase ==
    { "a", "b", "c", "d", "e", "f", "g", "h", "i", "j", "k", "l", "m",
      "n", "o", "p", "q", "r", "s", "t", "u", "v", "w", "x", "y", "z" }
specialChars ==
    { "!", "@", "#", "$", "%", "^", "&", "*", "(", ")", "_", "+", "-", "=",
      "[", "]", "{", "}", "|", ";", ":", ",", ".", "<", ">", "?" }

\* Bytes of the UTF-8 encoding of one character; a character outside ASCII
\* is written as its code point.
Utf8Len(c) ==
    IF c \in UpperCase \cup LowerCase \cup Digits \cup specialChars \cup {" "}
    THEN 1
    ELSE IF c = "U+00E9" THEN 2 ELSE 3

\* len(s) of a Go string
RECURSIVE ByteLen(_)
ByteLen(s) == IF Len(s) = 0 THEN 0 ELSE Utf8Len(s[1]) + ByteLen(Tail(s))

\* ValidatePasswordStrength(password): the error returned, "nil" for none
ValidatePasswordStrength(password) ==
    LET hasUpper   == \E i \in 1..Len(password) : password[i] \in UpperCase
        hasLower   == \E i \in 1..Len(password) : password[i] \in LowerCase
        hasDigit   == \E i \in 1..Len(password) : password[i] \in Digits
        hasSpecial == \E i \in 1..Len(password) : password[i] \in specialChars
    IN IF ByteLen(password) < 8 THEN "at least 8 characters long"
       ELSE IF ByteLen(password) > 100 THEN "must not exceed 100 characters"
       ELSE IF ~(hasUpper /\ hasLower /\ hasDigit /\ hasSpecial)
       THEN "must contain at least one"
       ELSE "nil"

\* validatePasswordStrength(fl)
validatePasswordStrength(field) ==
    ValidatePasswordStrength(ValueString(field)) = "nil"

(***************************************************************************)
(* Inputs.  Every string over a small alphabet up to a bounded length,     *)
(* and the longer literals the documentation and the tests name.           *)
(***************************************************************************)
DataAlphabet == {"0", "1", "5", "-", ".", "e", "a"}
ParamAlphabet == {"0", "1", "2", ":", "a", "-"}
IfAlphabet == {"2", "@", "=", "T", "c"}

DocLiterals ==
    { <<"1", "0", "0", ".", "5", "0", "0">>,
      <<"1", "0", "0", ".", "5", "0">>,
      <<"1", "0", "0", ".", "5">>,
      <<"1", "0", "0", ".", "0", "0">>,
      <<"1", "0", "0", ".", "5", "0", "1">>,
      <<"1", "2", "3", "4", "5", "6", "7", "8">>,
      <<"1", "2", "3", "4", "5", "6", "7", "8", "9">>,
      <<"1", "2", "3", "4", "5", "6", "7", "8", "9", "0">>,
      <<"1", "2", "3", "4", "5", "6", "7", "8", "9", "0", "1">>,
      <<"n", "o", "t", "-", "a", "-", "n", "u", "m", "b", "e", "r">> }

DocParams ==
    { <<"1", "0", ":", "2">>, <<"1", "0", ":", "0">>, <<"1", "0", ":", "6">>,
      <<"1", "0", ":", "a", "b", "c">>, <<"a", "b", "c", ":", "6">>,
      <<"a", "b", "c", ":", "d", "e", "f">>, <<"1", "0", ":">>,
      <<"i", "n", "v", "a", "l", "i", "d">>, <<"3", "8", ":", "1", "8">>,
      <<"1", "0", ":", "2", ":", "3">>, <<"+", "2">>,
      <<"2", "1", "4", "7", "4", "8", "3", "6", "4", "7">>,
      <<"2", "1", "4", "7", "4", "8", "3", "6", "4", "8">>,
      <<"-", "2", "1", "4", "7", "4", "8", "3", "6", "4", "8", ":", "1">>,
      <<"-", "2", "1", "4", "7", "4", "8", "3", "6", "4", "8">>,
      <<"-", "2", "1", "4", "7", "4", "8", "3", "6", "4", "9">>,
      <<"9", "9", "9", "9", "9", "9", "9", "9", "9", "9", "9">>,
      <<"4", "2", "9", "4", "9", "6", "7", "2", "9", "8">>,
      <<"0", "2", "1", "4", "7", "4", "8", "3", "6", "4", "7">>,
      <<"1", "0", ":", "2", "1", "4", "7", "4", "8", "3", "6", "4", "8">>,
      <<"4", "2", "9", "4", "9", "6", "7", "2", "9", "8", ":", "2">>,
      <<"2", "1", "4", "7", "4", "8", "3", "6", "4", "7", ":", "3">> }

Literals == StringsUpTo(DataAlphabet, MaxDataLen) \cup DocLiterals
Params == StringsUpTo(ParamAlphabet, MaxParamLen) \cup DocParams

\* Inner rules and operands of the rules that take a second input.
ShortParams ==
    { <<>>, <<"2">>, <<"0">>, <<"1">>, <<"1", ":", "0">>, <<"2", ":", "1">>,
      <<"a">>, <<":">>, <<"-", "1">>, <<"1", "0", ":", "2">> }

Operands ==
    { <<>>, <<"0">>, <<"1">>, <<"-", "1">>, <<"1", ".", "0">>, <<"0", ".", "5">>,
      <<"1", ".", "5", "0">>, <<"0", "1">>, <<"a">>, <<"1", "e", "1">>,
      <<"1", "0", "0", ".", "5">>, <<"1", "0", "0", ".", "0", "0">> }

Limits == (-1..MaxLimit) \cup {10, DefaultScale, DefaultPrecision, MinInt32, MaxInt32}

Fields == {StringField(s) : s \in Literals} \cup {IntField}

NoField == [kind |-> "none", s |-> <<>>]
NoParent == [kind |-> "none", fields |-> <<>>]

\* The parents a decimal_if target f is validated under: structs that hold
\* f as field A and whose sibling T is a string, is not a string, or is
\* absent, and the single variable f (no struct).
Parents(f) ==
    { Struct((<<"A">> :> f) @@ (<<"T">> :> StringField(<<"c">>))),
      Struct((<<"A">> :> f) @@ (<<"T">> :> StringField(<<"2">>))),
      Struct((<<"A">> :> f) @@ (<<"T">> :> StringField(<<>>))),
      Struct((<<"A">> :> f) @@ (<<"T">> :> IntField)),
      Struct((<<"A">> :> f) @@ (<<"c">> :> StringField(<<"c">>))),
      SingleVariable(f) }

\* Literals at the default limits: 20 and 21 integer digits, 18 and 19
\* fractional digits.
LongLiterals ==
    { Repeat("1", 20) \o <<".">> \o Repeat("5", 18),
      Repeat("1", 21), Repeat("1", 20),
      <<"1", ".">> \o Repeat("5", 19), <<"1", ".">> \o Repeat("5", 18),
      <<"-">> \o Repeat("1", 20) \o <<".">> \o Repeat("5", 18) }

\* The fields and the parameters of the decimal rule.
DecimalFields == Fields \cup {StringField(s) : s \in LongLiterals}

DecimalParams ==
    ShortParams
    \cup { <<"3", "8", ":", "1", "8">>, <<"2", ":", "2">>, <<"4", "0">>,
           <<"3", "8">>, <<"3", "9">>, <<"0", ":", "1">>,
           <<"-", "2", "1", "4", "7", "4", "8", "3", "6", "4", "8", ":", "1">>,
           <<"1", ":", "-", "2", "1", "4", "7", "4", "8", "3", "6", "4", "7">>,
           <<"2", "1", "4", "7", "4", "8", "3", "6", "4", "7", ":", "-", "1">> }

IfTargets ==
    { StringField(<<"1", ".", "5">>), StringField(<<"1", ".", "5", "0", "0">>),
      StringField(<<"a">>), IntField }

IfDataAlphabet == {"0", "1", "5", ".", "a"}

IfFields ==
    {StringField(s) : s \in StringsUpTo(IfDataAlphabet, MaxDataLen) \cup DocLiterals}
    \cup {StringField(<<"-", "1", ".", "5">>), StringField(<<"1", "e", "1">>), IntField}

IfParams == StringsUpTo(IfAlphabet, MaxIfParamLen)

Conditions ==
    { <<"@", "T", "=", "c">>, <<"@", "T", "=">>, <<"@", "c", "=", "c">>,
      <<"@", "=", "c">>, <<"@", "T", "=", "2">>, <<"@", "A", "=", "1", ".", "5">> }

\* The conditional tag of the main README and the struct it is written on.
ReadmeParam ==
    << "M", "e", "t", "h", "o", "d", " ", "c", "a", "s", "h", " ",
       "d", "g", "t", "e", " ", "0", " ",
       "d", "e", "c", "i", "m", "a", "l", " ", "1", "0", ":", "0" >>

Method == <<"M", "e", "t", "h", "o", "d">>
Amount == <<"A", "m", "o", "u", "n", "t">>
Type == <<"T", "y", "p", "e">>
cash == <<"c", "a", "s", "h">>
credit == <<"c", "r", "e", "d", "i", "t">>

Payment(key, value, amount) ==
    Struct((key :> StringField(value)) @@ (Amount :> amount))

ExampleAmounts ==
    { StringField(<<"1", "0", "0">>), StringField(<<"1", "0", "0", ".", "5">>),
      StringField(<<"1", "0", "0", ".", "5", "0">>),
      StringField(<<"1", "0", "0", ".", "5", "0", "1">>),
      StringField(<<"1", "0", "0", ".", "0", "0">>), StringField(<<"a">>) }

\* (target, parameter, parent) of the decimal_if calls the READMEs show.
DocIfCalls ==
    { <<a, ReadmeParam, Payment(Method, v, a)>> :
        a \in ExampleAmounts, v \in {cash, credit} }
    \cup
    { <<a, r \o <<"@">> \o Type \o <<"=">> \o e, Payment(Type, v, a)>> :
        a \in ExampleAmounts, r \in {<<"2">>, <<"0">>},
        e \in {cash, credit}, v \in {cash, credit} }

\* (target, parameter, parent) for the two parameters with an empty part
\* that the tests of the parser name, on a struct with a field Mode.
Mode == <<"M", "o", "d", "e">>
mode1 == <<"m", "o", "d", "e", "1">>
EmptyPartIfCalls ==
    { <<a, <<"2", "@">> \o name \o <<"=">> \o e, Payment(Mode, v, a)>> :
        a \in ExampleAmounts, name \in {<<>>, Mode}, e \in {<<>>, mode1},
        v \in {<<>>, mode1} }

\* The conditional parameters the tests of the parser name.
DocIfParams ==
    { <<"@", "S", "t", "a", "t", "u", "s", "=", "a", "c", "t", "i", "v", "e">>,
      <<"2", "@", "=", "m", "o", "d", "e", "1">>,
      <<"2", "@", "M", "o", "d", "e", "=">>,
      <<"2", "M", "o", "d", "e", "=", "m", "o", "d", "e", "1">>,
      <<"2", "@", "M", "o", "d", "e", "@", "=", "m", "o", "d", "e", "1">>,
      <<"2", "@", "M", "o", "d", "e", "=", "m", "o", "d", "e", "=", "1">>,
      <<"1", "0", ":", "2", "@", "M", "o", "d", "e", "=", "m", "o", "d", "e", "1">>,
      ReadmeParam }

\* (target, parameter) of the decimal_if calls: every raw parameter on a
\* few targets, and every target under the well-formed parameters.
IfCalls ==
    (IfTargets \X IfParams)
    \cup (IfFields \X {r \o c : r \in ShortParams, c \in Conditions})

\* Fields of type decimal.Decimal, and the fields decimalTypeFunc is
\* called on.
TypedFields ==
    { DecimalField(<<"1", ".", "5", "0">>), DecimalField(<<"1", ".", "5">>),
      DecimalField(<<"1", "0", "0", ".", "5", "0", "0">>),
      DecimalField(<<"1", "2", "3", ".", "4", "5">>),
      DecimalField(<<"0">>), DecimalField(<<"-", "0", ".", "0">>),
      DecimalField(<<"-", "1", ".", "5", "0">>), DecimalField(<<"0", "1", "0">>) }

AdapterInputs == TypedFields \cup Fields

\* Phone numbers: a short prefix, a run of one digit and a last
\* character, so that 6 to 16 digits and stray characters are met.
PhoneAlphabet == {"+", "0", "6", " "}
RunLengths == {0, 5, 6, 7, 12, 13, 14, 15}
Phones ==
    { h \o Repeat("5", k) \o t :
        h \in StringsUpTo(PhoneAlphabet, MaxPrefixLen), k \in RunLengths,
        t \in {<<>>, <<" ">>, <<"a">>, <<"-">>} }

Regions == {<<"T", "H">>, <<"U", "S">>, <<>>}
CountryParams == {<<>>, <<"T", "H">>, <<"U", "S">>, <<"t", "h">>}

PhoneAnswers ==
    { PhoneAnswer(TRUE, FALSE, "UNKNOWN", <<>>),
      PhoneAnswer(FALSE, FALSE, "UNKNOWN", <<>>) }
    \cup { PhoneAnswer(FALSE, TRUE, t, r) :
             t \in {"MOBILE", "FIXED_LINE_OR_MOBILE", "FIXED_LINE"}, r \in Regions }

\* Passwords: a short head followed by one character repeated, so that
\* the lengths around 8 and around 100 are met.
PwAlphabet == {"A", "a", "1", "!", " ", "U+00E9"}
PadLengths == {0, 1, 2, 3, 4, 5, 48, 49, 91, 92, 93, 96, 97}
PwHeads ==
    StringsUpTo(PwAlphabet, MaxHeadLen)
    \cup { <<"A", "a", "1", "!">>,
           <<"T", "e", "s", "t", "1", "2", "3", "!">>,
           <<"T", "e", "s", "t", "1", "2", "3", "4", "U+4F60", "U+597D">> }
Passwords ==
    {h \o Repeat(c, k) : h \in PwHeads, c \in {"a", "U+00E9"}, k \in PadLengths}

\* What the validation library may hand to the translated entry points.
FieldErrors ==
    {FieldError(f, t) : f \in {<<"a">>, <<";">>}, t \in {<<"r">>, <<"d">>, <<"x">>}}

UnderlyingErrors ==
    {NilError}
    \cup {ValidationErrors(e) : e \in StringsUpTo(FieldErrors, MaxErrors) \ {<<>>}}

\* (field, parameter) of the comparison calls.
CompareCalls ==
    (Fields \X Operands)
    \cup ({StringField(s) : s \in Operands} \X Literals)

(***************************************************************************)
(* The state: the call made on the package and what it returned.  Nothing   *)
(* outlives a call, so every behaviour is one call from the initial state. *)
(* The one value that outlives a call is the lazily compiled regex, with   *)
(* the sync.Once that guards it and the goroutines that ask for it.        *)
(***************************************************************************)
NoIfParam == [err |-> FALSE, rule |-> <<>>, field |-> <<>>, expect |-> <<>>]

\* What a library answered during the call, and what the call returned
\* when that is no verdict: nothing, for the calls that have neither.
NoLib == [kind |-> "none"]
NoOut == [kind |-> "none"]

Goroutines == 1..MaxGoroutines
nil == 0
Unlocked == 0

Init ==
    /\ fn = "init"
    /\ data = NoField
    /\ param = <<>>
    /\ parent = NoParent
    /\ precision = 0
    /\ scale = 0
    /\ ret = "none"
    /\ ifParam = NoIfParam
    /\ lib = NoLib
    /\ out = NoOut
    /\ pc = [g \in Goroutines |-> "idle"]
    /\ calls = [g \in Goroutines |-> 0]
    /\ returned = [g \in Goroutines |-> nil]
    /\ regex = nil
    /\ onceDone = 0
    /\ onceM = Unlocked
    /\ compiled = 0

Verdict(b) == IF b THEN "pass" ELSE "fail"

Call_parseDecimalParams ==
    /\ fn = "init"
    /\ \E p \in Params :
        /\ fn' = "parseDecimalParams"
        /\ ifParam' = NoIfParam
        /\ lib' = NoLib
        /\ out' = NoOut
        /\ UNCHANGED onceVars
        /\ param' = p
        /\ precision' = parseDecimalParams(p)[1]
        /\ scale' = parseDecimalParams(p)[2]
        /\ ret' = "none"
        /\ data' = NoField
        /\ parent' = NoParent

Call_validateDecimalPrecisionScale ==
    /\ fn = "init"
    /\ \E s \in Literals, prec \in Limits, sc \in Limits :
        /\ NewFromString(s).ok
        /\ fn' = "validateDecimalPrecisionScale"
        /\ ifParam' = NoIfParam
        /\ lib' = NoLib
        /\ out' = NoOut
        /\ UNCHANGED onceVars
        /\ data' = StringField(s)
        /\ precision' = prec
        /\ scale' = sc
        /\ ret' = Verdict(validateDecimalPrecisionScale(NewFromString(s), prec, sc))
        /\ param' = <<>>
        /\ parent' = NoParent

Rule_decimal ==
    /\ fn = "init"
    /\ \E f \in DecimalFields, p \in DecimalParams :
        /\ fn' = "decimal"
        /\ ifParam' = NoIfParam
        /\ lib' = NoLib
        /\ out' = NoOut
        /\ UNCHANGED onceVars
        /\ data' = f
        /\ param' = p
        /\ ret' = Verdict(validateDecimal(f, p))
        /\ precision' = 0
        /\ scale' = 0
        /\ parent' = NoParent

Rule_compare ==
    /\ fn = "init"
    /\ \E rule \in Rules, c \in CompareCalls :
        /\ fn' = rule
        /\ ifParam' = NoIfParam
        /\ lib' = NoLib
        /\ out' = NoOut
        /\ UNCHANGED onceVars
        /\ data' = c[1]
        /\ param' = c[2]
        /\ ret' = Verdict(validateDecimalOperation(rule, c[1], c[2]))
        /\ precision' = 0
        /\ scale' = 0
        /\ parent' = NoParent

\* The six registered rules run on one field under one parameter, as a
\* caller does with one tag after another: the rules that passed.
Rules_compare ==
    /\ fn = "init"
    /\ \E c \in CompareCalls :
        /\ fn' = "rules"
        /\ ifParam' = NoIfParam
        /\ lib' = NoLib
        /\ out' = [kind |-> "rules",
                   pass |-> {rule \in Rules : validateDecimalOperation(rule, c[1], c[2])}]
        /\ UNCHANGED onceVars
        /\ data' = c[1]
        /\ param' = c[2]
        /\ ret' = "none"
        /\ precision' = 0
        /\ scale' = 0
        /\ parent' = NoParent

Call_parseDecimalIfParam ==
    /\ fn = "init"
    /\ \E p \in IfParams \cup DocIfParams :
        /\ fn' = "parseDecimalIfParam"
        /\ param' = p
        /\ ifParam' = parseDecimalIfParam(p)
        /\ lib' = NoLib
        /\ out' = NoOut
        /\ data' = NoField
        /\ parent' = NoParent
        /\ precision' = 0
        /\ scale' = 0
        /\ ret' = "none"
        /\ UNCHANGED onceVars

DecimalIf(f, p, par) ==
    /\ fn' = "decimal_if"
    /\ data' = f
    /\ param' = p
    /\ parent' = par
    /\ ret' = validateDecimalIf(f, p, par)
    /\ precision' = 0
    /\ scale' = 0
    /\ ifParam' = NoIfParam
    /\ lib' = NoLib
    /\ out' = NoOut
    /\ UNCHANGED onceVars

Rule_decimal_if ==
    /\ fn = "init"
    /\ \/ \E c \in IfCalls : \E par \in Parents(c[1]) : DecimalIf(c[1], c[2], par)
       \/ \E c \in DocIfCalls \cup EmptyPartIfCalls : DecimalIf(c[1], c[2], c[3])

Call_decimalTypeFunc ==
    /\ fn = "init"
    /\ \E f \in AdapterInputs :
        /\ fn' = "decimalTypeFunc"
        /\ data' = f
        /\ out' = decimalTypeFunc(f)
        /\ UNCHANGED <<param, parent, precision, scale, ret, ifParam, lib>>
        /\ UNCHANGED onceVars

\* The rules on a field of type decimal.Decimal.
Typed_decimal ==
    /\ fn = "init"
    /\ \E f \in TypedFields, p \in DecimalParams :
        /\ fn' = "decimal"
        /\ data' = f
        /\ param' = p
        /\ ret' = Verdict(validateDecimal(Extract(f), p))
        /\ UNCHANGED <<parent, precision, scale, ifParam, lib, out>>
        /\ UNCHANGED onceVars

Typed_compare ==
    /\ fn = "init"
    /\ \E rule \in Rules, f \in TypedFields, p \in Operands :
        /\ fn' = rule
        /\ data' = f
        /\ param' = p
        /\ ret' = Verdict(validateDecimalOperation(rule, Extract(f), p))
        /\ UNCHANGED <<parent, precision, scale, ifParam, lib, out>>
        /\ UNCHANGED onceVars

Typed_decimal_if ==
    /\ fn = "init"
    /\ \E f \in TypedFields, r \in ShortParams, c \in Conditions :
       \E par \in Parents(f) :
        /\ fn' = "decimal_if"
        /\ data' = f
        /\ param' = r \o c
        /\ parent' = par
        /\ ret' = validateDecimalIf(Extract(f), r \o c, par)
        /\ UNCHANGED <<precision, scale, ifParam, lib, out>>
        /\ UNCHANGED onceVars

Rule_mobile_e164 ==
    /\ fn = "init"
    /\ \E s \in Phones, p \in CountryParams, answer \in PhoneAnswers :
        /\ fn' = "mobile_e164"
        /\ data' = StringField(s)
        /\ param' = p
        /\ lib' = answer
        /\ ret' = Verdict(validateMobileE164(StringField(s), p, answer))
        /\ UNCHANGED <<parent, precision, scale, ifParam, out>>
        /\ UNCHANGED onceVars

Rule_password_strength ==
    /\ fn = "init"
    /\ \E pw \in Passwords :
        /\ fn' = "password_strength"
        /\ data' = StringField(pw)
        /\ ret' = Verdict(validatePasswordStrength(StringField(pw)))
        /\ out' = [kind |-> "error", text |-> ValidatePasswordStrength(pw)]
        /\ UNCHANGED <<param, parent, precision, scale, ifParam, lib>>
        /\ UNCHANGED onceVars

Call_StructTranslated ==
    /\ fn = "init"
    /\ \E err \in UnderlyingErrors \cup {InvalidValidationError} :
        /\ fn' = "StructTranslated"
        /\ lib' = err
        /\ out' = StructTranslated(err)
        /\ UNCHANGED <<data, param, parent, precision, scale, ret, ifParam>>
        /\ UNCHANGED onceVars

Call_VarTranslated ==
    /\ fn = "init"
    /\ \E err \in UnderlyingErrors :
        /\ fn' = "VarTranslated"
        /\ lib' = err
        /\ out' = VarTranslated(err)
        /\ UNCHANGED <<data, param, parent, precision, scale, ret, ifParam>>
        /\ UNCHANGED onceVars

(***************************************************************************)
(* E164Regex(): the accessor lazyRegexCompile returns, called by several   *)
(* goroutines.  once.Do loads the done flag; when it is 0 the caller takes *)
(* the mutex of the Once, loads the flag again, runs the function when it  *)
(* is still 0, stores 1, and releases the mutex.  The accessor then        *)
(* returns the shared pointer.                                             *)
(***************************************************************************)
Accessor_call(g) ==
    /\ pc[g] = "idle"
    /\ calls[g] < MaxCalls
    /\ pc' = [pc EXCEPT ![g] = "Do"]
    /\ UNCHANGED <<calls, returned, regex, onceDone, onceM, compiled>>
    /\ UNCHANGED callVars

Once_Do_unlocked(g) ==
    /\ pc[g] = "Do"
    /\ pc' = [pc EXCEPT ![g] = IF onceDone = 0 THEN "f" ELSE "return"]
    /\ UNCHANGED <<calls, returned, regex, onceDone, onceM, compiled>>
    /\ UNCHANGED callVars

Once_Do(g) ==
    /\ pc[g] = "Do"
    /\ pc' = [pc EXCEPT ![g] = IF onceDone = 0 THEN "Lock" ELSE "return"]
    /\ UNCHANGED <<calls, returned, regex, onceDone, onceM, compiled>>
    /\ UNCHANGED callVars

Once_Lock(g) ==
    /\ pc[g] = "Lock"
    /\ onceM = Unlocked
    /\ onceM' = g
    /\ pc' = [pc EXCEPT ![g] = "doSlow"]
    /\ UNCHANGED <<calls, returned, regex, onceDone, compiled>>
    /\ UNCHANGED callVars

Once_doSlow(g) ==
    /\ pc[g] = "doSlow"
    /\ pc' = [pc EXCEPT ![g] = IF onceDone = 0 THEN "f" ELSE "Unlock"]
    /\ UNCHANGED <<calls, returned, regex, onceDone, onceM, compiled>>
    /\ UNCHANGED callVars

\* regex = regexp.MustCompile(pattern): a fresh instance each time it runs.
Once_f(g) ==
    /\ pc[g] = "f"
    /\ compiled' = compiled + 1
    /\ regex' = compiled + 1
    /\ pc' = [pc EXCEPT ![g] = "Store"]
    /\ UNCHANGED <<calls, returned, onceDone, onceM>>
    /\ UNCHANGED callVars

Once_Store(g) ==
    /\ pc[g] = "Store"
    /\ onceDone' = 1
    /\ pc' = [pc EXCEPT ![g] = "Unlock"]
    /\ UNCHANGED <<calls, returned, regex, onceM, compiled>>
    /\ UNCHANGED callVars

Once_Unlock(g) ==
    /\ pc[g] = "Unlock"
    /\ onceM' = IF onceM = g THEN Unlocked ELSE onceM
    /\ pc' = [pc EXCEPT ![g] = "return"]
    /\ UNCHANGED <<calls, returned, regex, onceDone, compiled>>
    /\ UNCHANGED callVars

Accessor_return(g) ==
    /\ pc[g] = "return"
    /\ returned' = [returned EXCEPT ![g] = regex]
    /\ calls' = [calls EXCEPT ![g] = calls[g] + 1]
    /\ pc' = [pc EXCEPT ![g] = "idle"]
    /\ UNCHANGED <<regex, onceDone, onceM, compiled>>
    /\ UNCHANGED callVars

NextParams == Call_parseDecimalParams
NextScale == Call_validateDecimalPrecisionScale \/ Rule_decimal
NextCompare == Rule_compare \/ Rules_compare
NextIf == Rule_decimal_if
NextIfParam == Call_parseDecimalIfParam
NextAdapter ==
    Call_decimalTypeFunc \/ Typed_decimal \/ Typed_compare \/ Typed_decimal_if
NextPhone == Rule_mobile_e164
NextPassword == Rule_password_strength
NextTranslated == Call_StructTranslated \/ Call_VarTranslated
NextOnce ==
    \E g \in Goroutines :
        \/ Accessor_call(g)
        \/ Once_Do(g)
        \/ Once_Lock(g)
        \/ Once_doSlow(g)
        \/ Once_f(g)
        \/ Once_Store(g)
        \/ Once_Unlock(g)
        \/ Accessor_return(g)

Next ==
    \/ NextParams \/ NextScale \/ NextCompare \/ NextIf \/ NextIfParam
    \/ NextTranslated \/ NextPassword \/ NextPhone \/ NextAdapter
    \/ NextOnce

Spec == Init /\ [][Next]_vars
SpecParams == Init /\ [][NextParams]_vars
SpecScale == Init /\ [][NextScale]_vars
SpecCompare == Init /\ [][NextCompare]_vars
SpecIf == Init /\ [][NextIf]_vars
SpecIfParam == Init /\ [][NextIfParam]_vars
SpecAdapter == Init /\ [][NextAdapter]_vars
SpecPhone == Init /\ [][NextPhone]_vars
SpecPassword == Init /\ [][NextPassword]_vars
SpecTranslated == Init /\ [][NextTranslated]_vars
SpecOnce == Init /\ [][NextOnce]_vars

(***************************************************************************)
(* Vocabulary of the properties, stated on the text of the inputs and      *)
(* independently of the operators above.                                   *)
(***************************************************************************)
CountOf(s, c) == Cardinality({i \in 1..Len(s) : s[i] = c})

AllDigits(s) == \A i \in 1..Len(s) : s[i] \in Digits

Unsigned(s) == IF Len(s) > 0 /\ s[1] = "-" THEN Tail(s) ELSE s

IntegerText(s) ==
    LET u == Unsigned(s) dot == IndexOf(u, {"."})
    IN IF dot = 0 THEN u ELSE SubSeq(u, 1, dot - 1)

FractionText(s) ==
    LET u == Unsigned(s) dot == IndexOf(u, {"."})
    IN IF dot = 0 THEN <<>> ELSE Tail0(u, dot + 1)

\* A decimal literal: optional '-', digits, optionally '.' and digits.
IsPlainLiteral(s) ==
    /\ Len(IntegerText(s)) > 0
    /\ AllDigits(IntegerText(s))
    /\ AllDigits(FractionText(s))
    /\ (Contains(s, ".") => Len(FractionText(s)) > 0)

LeadingZeros(s) == Cardinality({i \in 1..Len(s) : \A j \in 1..i : s[j] = "0"})
TrailingZeros(s) == Cardinality({i \in 1..Len(s) : \A j \in i..Len(s) : s[j] = "0"})

\* Digits after the '.' and significant digits before it (at least one).
FractionDigits(s) == Len(FractionText(s))
IntegerDigits(s) ==
    LET n == Len(IntegerText(s)) - LeadingZeros(IntegerText(s))
    IN IF n = 0 THEN 1 ELSE n

Canonical(f) == DecimalString(NewFromString(f.s))

\* Exact order of two decimal literals, digit by digit.
SigInt(s) == Tail0(IntegerText(s), LeadingZeros(IntegerText(s)) + 1)
SigFrac(s) == SubSeq(FractionText(s), 1, Len(FractionText(s)) - TrailingZeros(FractionText(s)))
LitZero(s) == Len(SigInt(s)) = 0 /\ Len(SigFrac(s)) = 0
LitNeg(s) == Len(s) > 0 /\ s[1] = "-" /\ ~LitZero(s)
Padded(s, n) == SigInt(s) \o SigFrac(s) \o Repeat("0", n - Len(SigFrac(s)))
LexLess(a, b) ==
    \E i \in 1..Len(a) :
        /\ DigitVal(a[i]) < DigitVal(b[i])
        /\ \A j \in 1..(i - 1) : a[j] = b[j]
MagLess(x, y) ==
    LET n == IF Len(SigFrac(x)) > Len(SigFrac(y)) THEN Len(SigFrac(x)) ELSE Len(SigFrac(y))
    IN \/ Len(SigInt(x)) < Len(SigInt(y))
       \/ /\ Len(SigInt(x)) = Len(SigInt(y))
          /\ LexLess(Padded(x, n), Padded(y, n))
LitEqual(x, y) ==
    LitNeg(x) = LitNeg(y) /\ SigInt(x) = SigInt(y) /\ SigFrac(x) = SigFrac(y)
LitLess(x, y) ==
    IF LitNeg(x) # LitNeg(y) THEN LitNeg(x)
    ELSE IF LitNeg(x) THEN MagLess(y, x)
    ELSE MagLess(x, y)

Relation(rule, x, y) ==
    CASE rule = "dgt"  -> LitLess(y, x)
      [] rule = "dgte" -> ~LitLess(x, y)
      [] rule = "dlt"  -> LitLess(x, y)
      [] rule = "dlte" -> ~LitLess(y, x)
      [] rule = "deq"  -> LitEqual(x, y)
      [] rule = "dneq" -> ~LitEqual(x, y)

\* The conditional parameter "<rule>@<field>=<expected>" read off its text.
AfterAt(p) == Tail0(p, IndexOf(p, {"@"}) + 1)
WellFormedIf(p) == CountOf(p, "@") = 1 /\ CountOf(AfterAt(p), "=") = 1
IfRule(p) == SubSeq(p, 1, IndexOf(p, {"@"}) - 1)
IfField(p) == SubSeq(AfterAt(p), 1, IndexOf(AfterAt(p), {"="}) - 1)
IfExpect(p) == Tail0(AfterAt(p), IndexOf(AfterAt(p), {"="}) + 1)

SiblingFound ==
    /\ fn = "decimal_if"
    /\ WellFormedIf(param)
    /\ parent.kind = "struct"
    /\ IfField(param) \in DOMAIN parent.fields

ConditionMet ==
    /\ SiblingFound
    /\ ValueString(parent.fields[IfField(param)]) = IfExpect(param)

\* An integer written with an optional sign and at most nine significant
\* digits, and its value.
IsIntText(s) ==
    LET b == IF Len(s) > 0 /\ s[1] \in {"+", "-"} THEN Tail(s) ELSE s
    IN Len(b) > 0 /\ AllDigits(b)
IntBody(s) ==
    LET b == IF s[1] \in {"+", "-"} THEN Tail(s) ELSE s
    IN Tail0(b, LeadingZeros(b) + 1)
IsSmallInt(s) == IsIntText(s) /\ Len(IntBody(s)) <= 9
RECURSIVE Pow10(_)
Pow10(n) == IF n = 0 THEN 1 ELSE 10 * Pow10(n - 1)
RECURSIVE SumDigits(_, _)
SumDigits(b, i) ==
    IF i > Len(b) THEN 0
    ELSE DigitVal(b[i]) * Pow10(Len(b) - i) + SumDigits(b, i + 1)
IntValue(s) ==
    IF s[1] = "-" THEN 0 - SumDigits(IntBody(s), 1) ELSE SumDigits(IntBody(s), 1)

\* What one half of a precision/scale parameter must yield: its value when
\* it is a small integer, the default when it is no integer at all.
HalfYields(s, got, default) ==
    /\ IsSmallInt(s) => got = IntValue(s)
    /\ ~IsIntText(s) => got = default

(***************************************************************************)
(* Properties.                                                             *)
(***************************************************************************)

\* C1: validateDecimalPrecisionScale passes a parsed value under a limit
\* (precision, scale) of non-negative integers exactly when its canonical
\* rendering, sign removed, has at most scale digits after the '.' and its
\* integer part, leading zeros stripped (one digit at least), has at most
\* precision - scale digits.
C1_PrecisionScaleIff ==
    (fn = "validateDecimalPrecisionScale" /\ precision >= 0 /\ scale >= 0) =>
        ((ret = "pass") <=>
            /\ FractionDigits(Canonical(data)) <= scale
            /\ IntegerDigits(Canonical(data)) <= precision - scale)

\* Eight integer digits pass the limit (10, 2).
C1_Witness ==
    /\ fn = "validateDecimalPrecisionScale"
    /\ data.s = <<"1", "2", "3", "4", "5", "6", "7", "8">>
    /\ precision = 10
    /\ scale = 2
    /\ ret = "pass"

C3_ConditionalSkip ==
    (SiblingFound /\ ~ConditionMet) => ret = "pass"

\* A target that is no number passes 2@T=c while T is "2".
C3_Witness ==
    /\ SiblingFound
    /\ ~ConditionMet
    /\ param = <<"2", "@", "T", "=", "c">>
    /\ data = StringField(<<"a">>)
    /\ ret = "pass"

\* C4: when the condition is met, decimal_if with "R@Field=expected" gives
\* the verdict of the decimal rule with parameter R on the same target.
C4_ApplyIsDecimalRule ==
    ConditionMet => ret = Verdict(validateDecimal(data, IfRule(param)))

\* The condition is met under an unparsable inner rule and the target passes
\* as it does under the defaults.
C4_Witness ==
    /\ ConditionMet
    /\ IfRule(param) = <<"a">>
    /\ data = StringField(<<"1", ".", "5">>)
    /\ ret = "pass"

\* C5: a parameter without exactly one '@' followed by exactly one '=' makes
\* decimal_if fail for every target and every parent, before any sibling
\* lookup.
C5_MalformedParamFails ==
    (fn = "decimal_if" /\ ~WellFormedIf(param)) => ret = "fail"

\* A parameter without '@' fails on a valid decimal, also with no struct to
\* look the sibling up in.
C5_Witness ==
    /\ fn = "decimal_if"
    /\ param = <<"2", "T", "=", "c">>
    /\ data = StringField(<<"1", ".", "5">>)
    /\ parent = SingleVariable(data)
    /\ ret = "fail"

\* C6: when the field named in a well-formed parameter cannot be found,
\* because the struct has no such field or because the parent is no struct,
\* decimal_if returns false and does not abort.
C6_SiblingNotFoundFailsClosed ==
    (fn = "decimal_if" /\ WellFormedIf(param) /\ ~SiblingFound) => ret = "fail"

\* C7: each comparison rule returns false when the field is no string, when
\* the field does not parse, or when the parameter does not parse (the empty
\* parameter included); dneq too.
C7_CompareFailsClosed ==
    /\ (/\ fn \in Rules
        /\ \/ data.kind # "string"
           \/ ~NewFromString(data.s).ok
           \/ ~NewFromString(param).ok)
           => ret = "fail"
    /\ (fn \in Rules /\ (param = <<>> \/ param = <<"a">> \/ data.s = <<"a">>))
           => ret = "fail"

\* dneq with an empty parameter fails on a valid field.
C7_Witness ==
    /\ fn = "dneq"
    /\ data = StringField(<<"1">>)
    /\ param = <<>>
    /\ ret = "fail"

\* C8: on two decimal literals each comparison rule passes exactly when the
\* relation holds between their exact values; literals that differ only in
\* trailing fractional zeros are equal.
C8_CompareByValue ==
    (/\ fn \in Rules
     /\ data.kind = "string"
     /\ IsPlainLiteral(data.s)
     /\ IsPlainLiteral(param))
        => ((ret = "pass") <=> Relation(fn, data.s, param))

\* "100.50" passes deq=100.5.
C8_Witness ==
    /\ fn = "deq"
    /\ data = StringField(<<"1", "0", "0", ".", "5", "0">>)
    /\ param = <<"1", "0", "0", ".", "5">>
    /\ ret = "pass"

\* C9: without a ':' the precision is always 38; the empty parameter yields
\* (38, 18), a base-10 integer n yields (38, n), anything else (38, 18).
C9_NoColon ==
    (fn = "parseDecimalParams" /\ ~Contains(param, ":")) =>
        /\ precision = 38
        /\ HalfYields(param, scale, 18)
        /\ (param = <<>> => scale = 18)

\* "2" yields (38, 2).
C9_Witness ==
    /\ fn = "parseDecimalParams"
    /\ param = <<"2">>
    /\ precision = 38
    /\ scale = 2

\* C10: with exactly one ':' each half is parsed on its own: the precision
\* is the left half or 38, the scale the right half or 18.
C10_HalvesIndependent ==
    (fn = "parseDecimalParams" /\ CountOf(param, ":") = 1) =>
        LET i == IndexOf(param, {":"})
        IN /\ HalfYields(SubSeq(param, 1, i - 1), precision, 38)
           /\ HalfYields(Tail0(param, i + 1), scale, 18)

\* "10:abc" yields (10, 18).
C10_Witness ==
    /\ fn = "parseDecimalParams"
    /\ param = <<"1", "0", ":", "a", "b", "c">>
    /\ precision = 10
    /\ scale = 18

\* C11: parseDecimalParams returns a pair of int32 values for every
\* parameter, and the pair (38, 18) for every parameter that holds two or
\* more ':'.
C11_ExtraColonsDefault ==
    fn = "parseDecimalParams" =>
        /\ precision \in MinInt32..MaxInt32
        /\ scale \in MinInt32..MaxInt32
        /\ CountOf(param, ":") >= 2 =>
              precision = DefaultPrecision /\ scale = DefaultScale

\* "10:2:3" yields (38, 18).
C11_Witness ==
    /\ fn = "parseDecimalParams"
    /\ param = <<"1", "0", ":", "2", ":", "3">>
    /\ precision = 38
    /\ scale = 18

\* C12: parseDecimalParams returns precision >= 0 and scale >= 0 for every
\* parameter.
C12_NonNegative ==
    fn = "parseDecimalParams" => precision >= 0 /\ scale >= 0

\* C13: parseDecimalIfParam succeeds exactly when the parameter holds one
\* '@' and the text after it holds one '='; on success the rule is the text
\* before the '@', the field the text between '@' and '=', the expected
\* value the text after '=', each possibly empty.  Every other parameter
\* returns an error.
C13_IfParamShape ==
    fn = "parseDecimalIfParam" =>
        /\ (~ifParam.err) <=> WellFormedIf(param)
        /\ ~ifParam.err =>
              /\ ifParam.rule = IfRule(param)
              /\ ifParam.field = IfField(param)
              /\ ifParam.expect = IfExpect(param)

\* "@Status=active" parses to an empty rule, field Status, value active.
C13_Witness ==
    /\ fn = "parseDecimalIfParam"
    /\ param = <<"@", "S", "t", "a", "t", "u", "s", "=", "a", "c", "t", "i", "v", "e">>
    /\ ~ifParam.err
    /\ ifParam.rule = <<>>
    /\ ifParam.field = <<"S", "t", "a", "t", "u", "s">>
    /\ ifParam.expect = <<"a", "c", "t", "i", "v", "e">>

\* C14: decimal, the six comparison rules and an applied decimal_if accept
\* a field string only if it is a plain literal: an optional leading '-',
\* one or more digits, and optionally a '.' followed by one or more digits.
C14_LiteralGrammar ==
    ( /\ data.kind = "string"
      /\ ret = "pass"
      /\ (fn = "decimal" \/ fn \in Rules \/ ConditionMet) )
    => IsPlainLiteral(data.s)

\* C16: however the goroutines that call E164Regex() interleave, the
\* pattern is compiled at most once, and every call that has returned
\* found it compiled exactly once and returned the one shared instance,
\* never nil.
C16_CompiledOnce ==
    /\ compiled <= 1
    /\ \A g \in Goroutines :
          calls[g] > 0 =>
              /\ compiled = 1
              /\ returned[g] # nil
              /\ returned[g] = regex
    /\ \A g, h \in Goroutines :
          (calls[g] > 0 /\ calls[h] > 0) => returned[g] = returned[h]

\* Goroutine 2 took the mutex after another goroutine had compiled: it
\* holds the lock with the flag set and compiles nothing, while goroutines
\* 1 and 3 have returned the one instance.
C16_Witness ==
    /\ compiled = 1
    /\ calls[1] > 0 /\ returned[1] = regex /\ regex # nil
    /\ pc[2] = "Unlock" /\ onceM = 2 /\ onceDone = 1
    /\ calls[3] > 0 /\ returned[3] = regex

\* C17: the tag of the main README, decimal_if=Method cash dgte 0 decimal
\* 10:0 on Amount, is accepted: when Method is not "cash" the rule is not
\* applied and every Amount passes, and when Method is "cash" an Amount
\* that is a non-negative integer of at most ten digits passes.
C17_ReadmeForm ==
    ( /\ fn = "decimal_if"
      /\ param = ReadmeParam
      /\ parent.kind = "struct"
      /\ Method \in DOMAIN parent.fields )
    => /\ ValueString(parent.fields[Method]) # cash => ret = "pass"
       /\ ( /\ ValueString(parent.fields[Method]) = cash
            /\ data.kind = "string"
            /\ IsPlainLiteral(data.s)
            /\ ~LitNeg(data.s)
            /\ FractionDigits(data.s) = 0
            /\ IntegerDigits(data.s) <= 10 ) => ret = "pass"

\* C18: with decimal_if=2@Type=credit (or 0@Type=cash) and
\* the condition met, a target that passes has exactly 2 (or 0) digits
\* after the '.', so "100" and "100.5" fail under scale 2.
C18_ExactlyScale ==
    ( /\ ConditionMet
      /\ data.kind = "string"
      /\ IsPlainLiteral(data.s)
      /\ IfRule(param) \in {<<"2">>, <<"0">>}
      /\ ret = "pass" )
    => FractionDigits(data.s) = IntValue(IfRule(param))

\* A plain literal with its sign flipped, and with k zeros put in front of
\* its integer part.
SignFlipped(s) == IF s[1] = "-" THEN Tail(s) ELSE <<"-">> \o s
WithLeadingZeros(s, k) ==
    IF s[1] = "-" THEN <<"-">> \o Repeat("0", k) \o Tail(s)
    ELSE Repeat("0", k) \o s

\* C19: the sign does not count toward the digit budgets: the decimal rule,
\* and validateDecimalPrecisionScale under every (precision, scale), give a
\* plain literal and the literal with its sign flipped the same verdict
\* ("-0" as "0").
C19_SignIgnored ==
    /\ (fn = "decimal" /\ data.kind = "string" /\ IsPlainLiteral(data.s)) =>
          ret = Verdict(validateDecimal(StringField(SignFlipped(data.s)), param))
    /\ (fn = "validateDecimalPrecisionScale" /\ IsPlainLiteral(data.s)) =>
          /\ NewFromString(SignFlipped(data.s)).ok
          /\ ret = Verdict(validateDecimalPrecisionScale(
                       NewFromString(SignFlipped(data.s)), precision, scale))

\* "-1" passes decimal=1:0, where one integer digit is allowed.
C19_Witness ==
    /\ fn = "decimal"
    /\ data = StringField(<<"-", "1">>)
    /\ param = <<"1", ":", "0">>
    /\ ret = "pass"

\* C20: leading zeros of the integer part are insignificant: a plain
\* literal with k zeros put in front of its integer part still parses and
\* gets the same verdict from the decimal rule and from
\* validateDecimalPrecisionScale under every (precision, scale); an integer
\* part of zeros only counts as one digit.
C20_LeadingZerosIgnored ==
    /\ (fn = "decimal" /\ data.kind = "string" /\ IsPlainLiteral(data.s)) =>
          \A k \in 0..MaxZeros :
              ret = Verdict(validateDecimal(
                        StringField(WithLeadingZeros(data.s, k)), param))
    /\ (fn = "validateDecimalPrecisionScale" /\ IsPlainLiteral(data.s)) =>
          \A k \in 0..MaxZeros :
              /\ NewFromString(WithLeadingZeros(data.s, k)).ok
              /\ ret = Verdict(validateDecimalPrecisionScale(
                           NewFromString(WithLeadingZeros(data.s, k)),
                           precision, scale))
    /\ ( /\ fn = "validateDecimalPrecisionScale"
         /\ IsPlainLiteral(data.s)
         /\ Len(SigInt(data.s)) = 0
         /\ precision >= 0 /\ scale >= 0
         /\ FractionDigits(Canonical(data)) <= scale ) =>
          (ret = "pass" <=> 1 <= precision - scale)

\* "00" is one integer digit: it passes (1, 0).
C20_Witness ==
    /\ fn = "validateDecimalPrecisionScale"
    /\ data = StringField(<<"0", "0">>)
    /\ precision = 1
    /\ scale = 0
    /\ ret = "pass"

\* C21: the decimal rule with no parameter gives every target the verdict
\* of decimal=38:18, and the other way round; under it a plain literal
\* passes exactly when it has at most 18 significant fractional digits and
\* at most 20 significant integer digits.
C21_DefaultIs3818 ==
    /\ (fn = "decimal" /\ param = <<>>) =>
          ret = Verdict(validateDecimal(data, <<"3", "8", ":", "1", "8">>))
    /\ (fn = "decimal" /\ param = <<"3", "8", ":", "1", "8">>) =>
          ret = Verdict(validateDecimal(data, <<>>))
    /\ (fn = "decimal" /\ param = <<>> /\ data.kind = "string"
           /\ IsPlainLiteral(data.s)) =>
          (ret = "pass" <=>
              /\ Len(SigFrac(data.s)) <= 18
              /\ Len(SigInt(data.s)) <= 20)

\* Twenty integer digits and eighteen fractional digits pass the bare rule.
C21_Witness ==
    /\ fn = "decimal"
    /\ param = <<>>
    /\ data = StringField(Repeat("1", 20) \o <<".">> \o Repeat("5", 18))
    /\ ret = "pass"

\* The text that starts at offset at of text and has the messages msgs,
\* first to last, with "; " between one and the next, and nothing after.
RECURSIVE JoinedAt(_, _, _)
JoinedAt(text, at, msgs) ==
    LET m == msgs[1]
        end == at + Len(m)
    IN /\ end <= Len(text)
       /\ SubSeq(text, at + 1, end) = m
       /\ IF Len(msgs) = 1 THEN end = Len(text)
          ELSE /\ end + 2 <= Len(text)
               /\ text[end + 1] = ";"
               /\ text[end + 2] = " "
               /\ JoinedAt(text, end + 2, Tail(msgs))

\* C22: StructTranslated and VarTranslated return nil when the validation
\* returned nil; for field validation errors they return one error that is
\* no ValidationErrors and whose text is the translated messages of the
\* field errors, in the order reported, joined by "; "; any other error is
\* returned unchanged.
C22_TranslatedOutcomes ==
    fn \in {"StructTranslated", "VarTranslated"} =>
        /\ lib.kind = "nil" => out.kind = "nil"
        /\ lib.kind = "ValidationErrors" =>
              /\ out.kind = "errorString"
              /\ JoinedAt(out.text, 0,
                          [i \in 1..Len(lib.errs) |-> Translate(lib.errs[i])])
        /\ lib.kind \notin {"nil", "ValidationErrors"} => out = lib

\* Two field errors, a translated one and an untranslated one, in order.
C22_Witness ==
    /\ fn = "StructTranslated"
    /\ lib = ValidationErrors(<<FieldError(<<"a">>, <<"r">>), FieldError(<<"a">>, <<"x">>)>>)
    /\ out.kind = "errorString"
    /\ out.text = <<"a", " ", "r", "e", "q", ";", " ", "K", ":", "a", " ", "T", ":", "x">>

\* C23: a password is accepted, by ValidatePasswordStrength and by the
\* password_strength rule, exactly when it has at least 8 and at most 100
\* characters and holds an uppercase letter, a lowercase letter, a digit
\* and a special character; other characters neither count nor reject.
C23_PasswordIff ==
    fn = "password_strength" =>
        LET pw == data.s
            accepted ==
                /\ Len(pw) >= 8
                /\ Len(pw) <= 100
                /\ \E i \in 1..Len(pw) : pw[i] \in UpperCase
                /\ \E i \in 1..Len(pw) : pw[i] \in LowerCase
                /\ \E i \in 1..Len(pw) : pw[i] \in Digits
                /\ \E i \in 1..Len(pw) : pw[i] \in specialChars
        IN /\ (ret = "pass") <=> accepted
           /\ (out.text = "nil") <=> accepted

\* C24: mobile_e164 passes only a text that is a '+' followed by digits
\* only, 7 to 15 of them; and with a country parameter it passes only a
\* number whose region, as the library derives it, is the parameter.
C24_FormatGate ==
    (fn = "mobile_e164" /\ ret = "pass") =>
        /\ Len(data.s) >= 8
        /\ Len(data.s) <= 16
        /\ data.s[1] = "+"
        /\ AllDigits(Tail(data.s))
        /\ param # <<>> => lib.region = param

\* Fifteen digits after the '+', the first not 0, pass for country TH when
\* the library says mobile in region TH.
C24_Witness ==
    /\ fn = "mobile_e164"
    /\ data = StringField(<<"+", "6">> \o Repeat("5", 14))
    /\ param = <<"T", "H">>
    /\ lib.region = <<"T", "H">>
    /\ lib.type = "MOBILE"
    /\ ret = "pass"

\* The canonical text of a plain literal: '-' for a negative value, the
\* integer digits without leading zeros ("0" when none is left), and the
\* fractional digits without trailing zeros after a '.', when any is left.
CanonicalText(s) ==
    (IF LitNeg(s) THEN <<"-">> ELSE <<>>)
    \o (IF Len(SigInt(s)) = 0 THEN <<"0">> ELSE SigInt(s))
    \o (IF Len(SigFrac(s)) = 0 THEN <<>> ELSE <<".">> \o SigFrac(s))

\* C25: decimalTypeFunc returns the canonical string of a decimal.Decimal
\* field and nil for a field of any other type; decimal, the comparison
\* rules and decimal_if give a decimal.Decimal field the verdict they give
\* a string field holding that canonical string.
C25_TypeAdapter ==
    /\ (fn = "decimalTypeFunc" /\ data.kind = "decimal") =>
          out = StringField(CanonicalText(data.s))
    /\ (fn = "decimalTypeFunc" /\ data.kind # "decimal") => out.kind = "nil"
    /\ (fn = "decimal" /\ data.kind = "decimal") =>
          ret = Verdict(validateDecimal(StringField(CanonicalText(data.s)), param))
    /\ (fn \in Rules /\ data.kind = "decimal") =>
          ret = Verdict(validateDecimalOperation(
                    fn, StringField(CanonicalText(data.s)), param))
    /\ (fn = "decimal_if" /\ data.kind = "decimal") =>
          ret = validateDecimalIf(StringField(CanonicalText(data.s)), param, parent)

\* The decimal made from "100.500" is handed over as "100.5".
C25_Witness ==
    /\ fn = "decimalTypeFunc"
    /\ data = DecimalField(<<"1", "0", "0", ".", "5", "0", "0">>)
    /\ out = StringField(<<"1", "0", "0", ".", "5">>)

\* n <= p - s in exact arithmetic, for a digit count n >= 0 and int32 p, s
\* (no step leaves the 32-bit range).
ExactFits(n, p, s) ==
    IF p < MinInt32 + n THEN FALSE ELSE s <= p - n

\* C26: validateDecimalPrecisionScale returns false for every value
\* whenever precision - scale < 1; so does the decimal rule under a
\* parameter that yields such a pair, as "2:2" and "40" do.
C26_NoRoomFails ==
    /\ (fn = "validateDecimalPrecisionScale" /\ ~ExactFits(1, precision, scale)) =>
          ret = "fail"
    /\ (fn = "decimal"
           /\ ~ExactFits(1, parseDecimalParams(param)[1], parseDecimalParams(param)[2])) =>
          ret = "fail"

\* C27: for every int32 precision and scale, the extreme ones included,
\* validateDecimalPrecisionScale returns true only if the integer digits
\* are at most precision - scale, computed exactly, and the fractional
\* digits are at most scale; so does the decimal rule under the pair its
\* parameter yields.
C27_NoWrapAccept ==
    /\ (fn = "validateDecimalPrecisionScale" /\ ret = "pass") =>
          /\ ExactFits(IntegerDigits(Canonical(data)), precision, scale)
          /\ FractionDigits(Canonical(data)) <= scale
    /\ (fn = "decimal" /\ ret = "pass") =>
          /\ ExactFits(IntegerDigits(Canonical(data)),
                       parseDecimalParams(param)[1], parseDecimalParams(param)[2])
          /\ FractionDigits(Canonical(data)) <= parseDecimalParams(param)[2]

\* An integer text beyond the signed 32-bit range, and the exact value of
\* one inside it.
AbsGreater(b, lim) ==
    \/ Len(b) > Len(lim)
    \/ Len(b) = Len(lim) /\ LexLess(lim, b)
Overflows(s) ==
    /\ IsIntText(s)
    /\ IF s[1] = "-"
       THEN AbsGreater(IntBody(s), <<"2", "1", "4", "7", "4", "8", "3", "6", "4", "8">>)
       ELSE AbsGreater(IntBody(s), <<"2", "1", "4", "7", "4", "8", "3", "6", "4", "7">>)
RECURSIVE NegSumDigits(_, _)
NegSumDigits(b, i) ==
    IF i > Len(b) THEN 0
    ELSE (0 - DigitVal(b[i]) * Pow10(Len(b) - i)) + NegSumDigits(b, i + 1)
ExactValue(s) ==
    IF s[1] = "-" THEN NegSumDigits(IntBody(s), 1) ELSE SumDigits(IntBody(s), 1)

\* What one half must yield: the integer written when it fits int32, the
\* default otherwise.
HalfKeepsRange(s, value, default) ==
    IF IsIntText(s) /\ ~Overflows(s) THEN value = ExactValue(s)
    ELSE value = default

\* C28: a half of the parameter that is an integer beyond the signed
\* 32-bit range keeps that half's default, as a half that is no integer
\* does; precision and scale are always a default or exactly the integer
\* written, never a truncated or wrapped one.
C28_OutOfRangeKeepsDefault ==
    fn = "parseDecimalParams" =>
        /\ (Len(param) > 0 /\ CountOf(param, ":") = 0) =>
              /\ precision = DefaultPrecision
              /\ HalfKeepsRange(param, scale, DefaultScale)
        /\ CountOf(param, ":") = 1 =>
              /\ HalfKeepsRange(SubSeq(param, 1, IndexOf(param, {":"}) - 1),
                                precision, DefaultPrecision)
              /\ HalfKeepsRange(Tail0(param, IndexOf(param, {":"}) + 1),
                                scale, DefaultScale)

\* "10:2147483648": the scale is one beyond the range and stays 18.
C28_Witness ==
    /\ fn = "parseDecimalParams"
    /\ param = <<"1", "0", ":", "2", "1", "4", "7", "4", "8", "3", "6", "4", "8">>
    /\ precision = 10
    /\ scale = 18

\* C29: on a field and a parameter that both parse, exactly one of dlt,
\* deq, dgt passes, dgte passes exactly when dlt fails, dlte exactly when
\* dgt fails and dneq exactly when deq fails; when the field or the
\* parameter does not parse all six rules fail, dneq with deq.
C29_RulesConsistent ==
    fn = "rules" =>
        IF data.kind = "string" /\ NewFromString(data.s).ok /\ NewFromString(param).ok
        THEN /\ Cardinality(out.pass \cap {"dlt", "deq", "dgt"}) = 1
             /\ ("dgte" \in out.pass) <=> ("dlt" \notin out.pass)
             /\ ("dlte" \in out.pass) <=> ("dgt" \notin out.pass)
             /\ ("dneq" \in out.pass) <=> ("deq" \notin out.pass)
        ELSE out.pass = {}

\* "1.0" against "1": deq, dgte and dlte pass, the other three fail.
C29_Witness ==
    /\ fn = "rules"
    /\ data = StringField(<<"1", ".", "0">>)
    /\ param = <<"1">>
    /\ out.pass = {"deq", "dgte", "dlte"}

\* C30: a well-formed parameter with an empty field name makes decimal_if
\* fail for every target and every parent struct, the name never being
\* found; with an empty expected value the condition is met exactly when
\* the sibling is a string holding "": then the decimal rule decides, and
\* for every other sibling value the rule passes.
C30_EmptyParts ==
    (fn = "decimal_if" /\ WellFormedIf(param) /\ parent.kind = "struct") =>
        /\ IfField(param) = <<>> => ret = "fail"
        /\ (IfField(param) \in DOMAIN parent.fields /\ IfExpect(param) = <<>>) =>
              IF parent.fields[IfField(param)] = StringField(<<>>)
              THEN ret = Verdict(validateDecimal(data, IfRule(param)))
              ELSE ret = "pass"

\* "2@=mode1" fails the valid target "100.5" on a struct whose Mode is
\* "mode1".
C30_Witness ==
    /\ fn = "decimal_if"
    /\ param = <<"2", "@", "=">> \o mode1
    /\ data = StringField(<<"1", "0", "0", ".", "5">>)
    /\ parent = Payment(Mode, mode1, data)
    /\ ret = "fail"

====
